---- MODULE Spec2Model ----
(***************************************************************************)
(* kss augmentation orchestration: augment() and the per-text pipeline     *)
(* _augment() of kss/_modules/augmentation/augment.py.                      *)
(*                                                                         *)
(* One behaviour of this module is one call of augment().  A Python value  *)
(* is a record [t |-> its type, v |-> its value]; a Python string is a     *)
(* sequence of tokens (so that the newline escaping of the verbose diff    *)
(* and the wrapping done by each stage are computed, not assumed).         *)
(***************************************************************************)
EXTENDS Integers, Sequences, FiniteSets, TLC

\* ------------------------------------------------------------------ bounds
MaxBatch == 2
MaxWorkers == 2
MaxCpu == 2

\* ------------------------------------------------------------ Python values
PyStr(s) == [t |-> "str", v |-> s]
PyList(l) == [t |-> "list", v |-> l]
PyInt(n) == [t |-> "int", v |-> n]
PyFloat(x) == [t |-> "float", v |-> x]
PyBool(b) == [t |-> "bool", v |-> b]
NoneValue == [t |-> "none", v |-> <<>>]

NoError == [kind |-> "none", param |-> ""]
Raise(kind, param) == [kind |-> kind, param |-> param]

\* the non-empty strings of the inputs; the second one holds a newline
Strings == {<<"ga">>, <<"na", "\n", "da">>}

SeqsUpTo(S, n) == UNION {[1..k -> S] : k \in 0..n}

TextArgs ==
    {PyStr(s) : s \in {<<>>} \cup Strings}
        \cup {PyList(l) : l \in SeqsUpTo(Strings, MaxBatch)}
        \cup {PyInt(7)}

\* replacement_ratio in tenths
RatioArgs == {PyFloat(3), PyStr(<<"0.3">>)}
FlagArgs == {PyBool(TRUE), PyBool(FALSE), PyStr(<<"yes">>)}
WorkerArgs == {PyStr(<<"auto">>)} \cup {PyInt(n) : n \in -1..MaxWorkers}
BackendArgs == {"auto", "mecab", "pecab", "klt"}

\* --------------------------------------------------- sanity-check helpers
\* _check_text: <<text, finish, error>>
_check_text(text) ==
    IF text.t \notin {"str", "list"}
    THEN <<text, FALSE, Raise("InputShapeError", "text")>>
    ELSE <<text, Len(text.v) = 0, NoError>>

\* _check_type: the error of validate_type(value, name, expected_type)
_check_type(param, param_name, type) ==
    IF param.t = type THEN NoError ELSE Raise("TypeMismatch", param_name)

Min(a, b) == IF a < b THEN a ELSE b

\* _check_num_workers: <<plan, error>>; the plan is PyBool(FALSE) (Direct) or
\* PyInt(n), n >= 2 (Parallel(n)).
_check_num_workers(text, num_workers, cpu_count) ==
    IF ~(num_workers = PyStr(<<"auto">>) \/ (num_workers.t = "int" /\ num_workers.v >= 1))
    THEN <<num_workers, Raise("WorkerPlanError", "num_workers")>>
    ELSE IF text.t = "str" \/ Len(text.v) = 1
    THEN <<PyBool(FALSE), NoError>>
    ELSE LET n == IF num_workers.t = "int"
                  THEN num_workers.v
                  ELSE Min(cpu_count, Len(text.v))
         IN  <<IF n < 2 THEN PyBool(FALSE) ELSE PyInt(n), NoError>>

_check_backend_mecab_pecab_only(backend) ==
    IF backend \in {"mecab", "pecab", "auto"}
    THEN NoError
    ELSE Raise("UnsupportedBackend", "backend")

\* ------------------------------------------------------------------- state
VARIABLES
    args,           \* the request as the caller passed it
    cpu_count,      \* the machine's processor count ("auto" worker heuristic)
    pc,             \* position in augment()
    text,           \* augment's local `text`
    finish,         \* augment's local `finish`
    num_workers,    \* augment's local `num_workers` (the plan once resolved)
    verbose,        \* augment's local `verbose`
    warnings,       \* what logger.warn was given
    func,           \* the partial of _augment handed to _run_job
    units,          \* the per-text invocations of _augment, by input index
    completed,      \* the indices of the finished invocations, in completion order
    stdout,         \* what was printed
    result,         \* the value augment returned
    error           \* the exception augment raised

vars == <<args, cpu_count, pc, text, finish, num_workers, verbose, warnings,
          func, units, completed, stdout, result, error>>

NoFunc == [bound |-> FALSE]

Init ==
    /\ args \in [text : TextArgs,
                 replacement_ratio : RatioArgs,
                 space_normalization : FlagArgs,
                 josa_normalization : FlagArgs,
                 num_workers : WorkerArgs,
                 backend : BackendArgs,
                 verbose : FlagArgs]
    \* only the "auto" heuristic reads the processor count
    /\ cpu_count \in (IF args.num_workers = PyStr(<<"auto">>) THEN 1..MaxCpu ELSE {1})
    /\ pc = "check_text"
    /\ text = args.text
    /\ finish = FALSE
    /\ num_workers = args.num_workers
    /\ verbose = args.verbose
    /\ warnings = <<>>
    /\ func = NoFunc
    /\ units = <<>>
    /\ completed = <<>>
    /\ stdout = <<>>
    /\ result = NoneValue
    /\ error = NoError

\* ------------------------------------------------------- augment(): checks
\* CheckText without its early return: `if finish: return text` left out
CheckText_no_early_return ==
    /\ pc = "check_text"
    /\ LET r == _check_text(text)
       IN  /\ finish' = r[2]
           /\ error' = r[3]
           /\ pc' = IF r[3] # NoError THEN "raised" ELSE "check_replacement_ratio"
    /\ UNCHANGED <<args, cpu_count, text, num_workers, verbose, warnings,
                   func, units, completed, stdout, result>>

\* CheckText whose early return gives a fresh empty list: `return []`
CheckText_returns_list ==
    /\ pc = "check_text"
    /\ LET r == _check_text(text)
       IN  /\ finish' = r[2]
           /\ error' = r[3]
           /\ pc' = IF r[3] # NoError THEN "raised"
                    ELSE IF r[2] THEN "done" ELSE "check_replacement_ratio"
           /\ result' = IF r[3] = NoError /\ r[2] THEN PyList(<<>>) ELSE result
    /\ UNCHANGED <<args, cpu_count, text, num_workers, verbose, warnings,
                   func, units, completed, stdout>>

\* CheckText followed at once by the backend check (line 55 moved up)
CheckText_backend_first ==
    /\ pc = "check_text"
    /\ LET r == _check_text(text)
           e == IF r[3] # NoError \/ r[2]
                THEN r[3]
                ELSE _check_backend_mecab_pecab_only(args.backend)
       IN  /\ finish' = r[2]
           /\ error' = e
           /\ pc' = IF e # NoError THEN "raised"
                    ELSE IF r[2] THEN "done" ELSE "check_replacement_ratio"
           /\ result' = IF r[3] = NoError /\ r[2] THEN r[1] ELSE result
    /\ UNCHANGED <<args, cpu_count, text, num_workers, verbose, warnings,
                   func, units, completed, stdout>>

\* CheckText whose early return comes after the ratio check (line 50 moved up)
CheckText_validates_first ==
    /\ pc = "check_text"
    /\ LET r == _check_text(text)
           e == IF r[3] # NoError
                THEN r[3]
                ELSE _check_type(args.replacement_ratio, "replacement_ratio", "float")
       IN  /\ finish' = r[2]
           /\ error' = e
           /\ pc' = IF e # NoError THEN "raised"
                    ELSE IF r[2] THEN "done" ELSE "check_replacement_ratio"
           /\ result' = IF e = NoError /\ r[2] THEN r[1] ELSE result
    /\ UNCHANGED <<args, cpu_count, text, num_workers, verbose, warnings,
                   func, units, completed, stdout>>

\* text, finish = _check_text(text); if finish: return text
CheckText ==
    /\ pc = "check_text"
    /\ LET r == _check_text(text)
       IN  /\ finish' = r[2]
           /\ error' = r[3]
           /\ pc' = IF r[3] # NoError THEN "raised"
                    ELSE IF r[2] THEN "done" ELSE "check_replacement_ratio"
           /\ result' = IF r[3] = NoError /\ r[2] THEN r[1] ELSE result
    /\ UNCHANGED <<args, cpu_count, text, num_workers, verbose, warnings,
                   func, units, completed, stdout>>

\* one `x = _check_type(x, "x", T)` line of augment
CheckType(at, param, param_name, type, next) ==
    /\ pc = at
    /\ error' = _check_type(param, param_name, type)
    /\ pc' = IF error' # NoError THEN "raised" ELSE next
    /\ UNCHANGED <<args, cpu_count, text, finish, num_workers, verbose,
                   warnings, func, units, completed, stdout, result>>

\* CheckReplacementRatio naming another parameter (a copied line)
CheckReplacementRatio_wrong_name ==
    CheckType("check_replacement_ratio", args.replacement_ratio,
              "space_normalization", "float", "check_space_normalization")

\* CheckReplacementRatio left out: the ratio goes on unchecked
CheckReplacementRatio_skipped ==
    /\ pc = "check_replacement_ratio"
    /\ pc' = "check_space_normalization"
    /\ UNCHANGED <<args, cpu_count, text, finish, num_workers, verbose,
                   warnings, func, units, completed, stdout, result, error>>

CheckReplacementRatio ==
    CheckType("check_replacement_ratio", args.replacement_ratio,
              "replacement_ratio", "float", "check_space_normalization")

CheckSpaceNormalization ==
    CheckType("check_space_normalization", args.space_normalization,
              "space_normalization", "bool", "check_josa_normalization")

CheckJosaNormalization ==
    CheckType("check_josa_normalization", args.josa_normalization,
              "josa_normalization", "bool", "check_verbose")

CheckVerbose ==
    CheckType("check_verbose", verbose, "verbose", "bool", "check_num_workers")

\* CheckNumWorkers with the resolved plan dropped:
\* `_check_num_workers(text, num_workers)` without the assignment
CheckNumWorkers_unassigned ==
    /\ pc = "check_num_workers"
    /\ LET r == _check_num_workers(text, num_workers, cpu_count)
       IN  /\ error' = r[2]
           /\ pc' = IF r[2] # NoError THEN "raised" ELSE "check_backend"
    /\ UNCHANGED <<args, cpu_count, text, finish, num_workers, verbose,
                   warnings, func, units, completed, stdout, result>>

\* num_workers = _check_num_workers(text, num_workers)
CheckNumWorkers ==
    /\ pc = "check_num_workers"
    /\ LET r == _check_num_workers(text, num_workers, cpu_count)
       IN  /\ num_workers' = r[1]
           /\ error' = r[2]
           /\ pc' = IF r[2] # NoError THEN "raised" ELSE "check_backend"
    /\ UNCHANGED <<args, cpu_count, text, finish, verbose, warnings, func,
                   units, completed, stdout, result>>

\* CheckBackend left out: the backend name goes on unchecked
CheckBackend_skipped ==
    /\ pc = "check_backend"
    /\ pc' = "verbose_gate"
    /\ UNCHANGED <<args, cpu_count, text, finish, num_workers, verbose,
                   warnings, func, units, completed, stdout, result, error>>

\* _check_backend_mecab_pecab_only(backend)
CheckBackend ==
    /\ pc = "check_backend"
    /\ error' = _check_backend_mecab_pecab_only(args.backend)
    /\ pc' = IF error' # NoError THEN "raised" ELSE "verbose_gate"
    /\ UNCHANGED <<args, cpu_count, text, finish, num_workers, verbose,
                   warnings, func, units, completed, stdout, result>>

VerboseWarning ==
    "Verbose mode is not supported for multiprocessing. It will be turned off automatically."

\* VerboseGate that warns but leaves verbose on: `verbose = False` left out
VerboseGate_warn_only ==
    /\ pc = "verbose_gate"
    /\ IF num_workers # PyBool(FALSE) /\ verbose.v
       THEN warnings' = Append(warnings, VerboseWarning)
       ELSE UNCHANGED warnings
    /\ pc' = "run_job"
    /\ UNCHANGED <<args, cpu_count, text, finish, num_workers, verbose, func,
                   units, completed, stdout, result, error>>

\* VerboseGate that does not look at the plan: `if verbose:`
VerboseGate_any_plan ==
    /\ pc = "verbose_gate"
    /\ IF verbose.v
       THEN /\ verbose' = PyBool(FALSE)
            /\ warnings' = Append(warnings, VerboseWarning)
       ELSE UNCHANGED <<verbose, warnings>>
    /\ pc' = "run_job"
    /\ UNCHANGED <<args, cpu_count, text, finish, num_workers, func, units,
                   completed, stdout, result, error>>

\* if num_workers is not False and verbose: verbose = False; logger.warn(...)
VerboseGate ==
    /\ pc = "verbose_gate"
    /\ IF num_workers # PyBool(FALSE) /\ verbose.v
       THEN /\ verbose' = PyBool(FALSE)
            /\ warnings' = Append(warnings, VerboseWarning)
       ELSE UNCHANGED <<verbose, warnings>>
    /\ pc' = "run_job"
    /\ UNCHANGED <<args, cpu_count, text, finish, num_workers, func, units,
                   completed, stdout, result, error>>

\* ------------------------------------------------- external collaborators
\* SynonymReplacement(backend)(text, p=replacement_ratio, verbose=verbose):
\* the replaced text, a function of the text, the ratio and the backend
SynonymReplacement(backend, t, p) ==
    <<"replace(", backend, ToString(p)>> \o t \o <<")">>

correct_josa(t) == <<"josa(">> \o t \o <<")">>

correct_spacing(t) == <<"spacing(">> \o t \o <<")">>

highlight_diffs(a, b) == <<"diff(">> \o a \o <<"|">> \o b \o <<")">>

\* str.replace("\n", "\\n")
replace_newline(s) == [k \in 1..Len(s) |-> IF s[k] = "\n" THEN "\\n" ELSE s[k]]

\* ------------------------------------------------------ augment(): dispatch
\* partial(_augment, replacement_ratio=..., space_normalization=...,
\*         josa_normalization=..., backend=..., verbose=...)
partial ==
    [bound |-> TRUE,
     replacement_ratio |-> args.replacement_ratio.v,
     space_normalization |-> args.space_normalization.v,
     josa_normalization |-> args.josa_normalization.v,
     backend |-> args.backend,
     verbose |-> verbose.v]

\* one invocation of func that a worker has not picked up yet
PendingUnit(t) ==
    [pc |-> "pending", arg |-> t, orig_text |-> <<>>, text |-> t,
     calls |-> <<>>, ret |-> <<>>, error |-> NoError]

\* _run_job: the invocations of func, one per input, in input order
_run_job_inputs(inputs) ==
    IF inputs.t = "str"
    THEN <<PendingUnit(inputs.v)>>
    ELSE [i \in 1..Len(inputs.v) |-> PendingUnit(inputs.v[i])]

\* RunJob that hands the work over and returns without waiting for it
RunJob_no_wait ==
    /\ pc = "run_job"
    /\ func' = partial
    /\ units' = _run_job_inputs(text)
    /\ pc' = "done"
    /\ UNCHANGED <<args, cpu_count, text, finish, num_workers, verbose,
                   warnings, completed, stdout, result, error>>

\* return _run_job(func=partial(_augment, ...), inputs=text, num_workers=num_workers)
RunJob ==
    /\ pc = "run_job"
    /\ func' = partial
    /\ units' = _run_job_inputs(text)
    /\ pc' = "running"
    /\ UNCHANGED <<args, cpu_count, text, finish, num_workers, verbose,
                   warnings, completed, stdout, result, error>>

Active(u) == u.pc \notin {"pending", "finished", "failed"}

\* _run_job: when the invocation for input i may begin.  Direct: the inputs are
\* mapped one after the other in the calling context; Parallel(n): at most n
\* workers are busy at a time.
_run_job_may_start(i) ==
    /\ units[i].pc = "pending"
    /\ IF num_workers = PyBool(FALSE)
       THEN \A j \in 1..(i - 1) : units[j].pc = "finished"
       ELSE Cardinality({j \in 1..Len(units) : Active(units[j])}) < num_workers.v

UnitFrame == <<args, cpu_count, pc, text, finish, num_workers, verbose,
               warnings, func, result, error>>

\* ---------------------------------------------------------------- _augment
\* orig_text = text
_augment_start(i) ==
    /\ pc = "running"
    /\ _run_job_may_start(i)
    /\ units' = [units EXCEPT ![i].pc = "replace",
                              ![i].orig_text = units[i].text]
    /\ UNCHANGED <<completed, stdout>>
    /\ UNCHANGED UnitFrame

\* a stage raised: the exception leaves _augment
StageFailure(i, call, stage) ==
    units' = [units EXCEPT ![i].pc = "failed",
                           ![i].calls = Append(@, call),
                           ![i].error = Raise("StageFailure", stage)]

\* _augment_replace reading a text shared by the invocations (the first one's)
\* instead of its own
_augment_replace_shared_text(i) ==
    /\ pc = "running"
    /\ units[i].pc = "replace"
    /\ LET u == units[1]
           call == [op |-> "replace", text |-> u.text, p |-> func.replacement_ratio,
                    backend |-> func.backend, verbose |-> func.verbose]
       IN  \/ units' = [units EXCEPT
                   ![i].pc = "josa",
                   ![i].calls = Append(@, call),
                   ![i].text = SynonymReplacement(func.backend, u.text,
                                                  func.replacement_ratio)]
           \/ StageFailure(i, call, "replace")
    /\ UNCHANGED <<completed, stdout>>
    /\ UNCHANGED UnitFrame

\* replacement = SynonymReplacement(backend=backend)
\* text = replacement(text, p=replacement_ratio, verbose=verbose)
_augment_replace(i) ==
    /\ pc = "running"
    /\ units[i].pc = "replace"
    /\ LET u == units[i]
           call == [op |-> "replace", text |-> u.text, p |-> func.replacement_ratio,
                    backend |-> func.backend, verbose |-> func.verbose]
       IN  \/ units' = [units EXCEPT
                   ![i].pc = "josa",
                   ![i].calls = Append(@, call),
                   ![i].text = SynonymReplacement(func.backend, u.text,
                                                  func.replacement_ratio)]
           \/ StageFailure(i, call, "replace")
    /\ UNCHANGED <<completed, stdout>>
    /\ UNCHANGED UnitFrame

\* _augment_josa given the original text: `text = correct_josa(orig_text)`
_augment_josa_on_orig_text(i) ==
    /\ pc = "running"
    /\ units[i].pc = "josa"
    /\ LET u == units[i]
           call == [op |-> "correct_josa", text |-> u.orig_text]
       IN  IF func.josa_normalization
           THEN \/ units' = [units EXCEPT ![i].pc = "space",
                                          ![i].calls = Append(@, call),
                                          ![i].text = correct_josa(u.orig_text)]
                \/ StageFailure(i, call, "correct_josa")
           ELSE units' = [units EXCEPT ![i].pc = "space"]
    /\ UNCHANGED <<completed, stdout>>
    /\ UNCHANGED UnitFrame

\* _augment_josa that calls correct_josa once more when it raised
_augment_josa_retry(i) ==
    /\ pc = "running"
    /\ units[i].pc = "josa"
    /\ LET u == units[i]
           call == [op |-> "correct_josa", text |-> u.text]
           called == \E k \in 1..Len(u.calls) : u.calls[k].op = "correct_josa"
       IN  IF func.josa_normalization
           THEN \/ units' = [units EXCEPT ![i].pc = "space",
                                          ![i].calls = Append(@, call),
                                          ![i].text = correct_josa(u.text)]
                \/ IF called
                   THEN StageFailure(i, call, "correct_josa")
                   ELSE units' = [units EXCEPT ![i].calls = Append(@, call)]
           ELSE units' = [units EXCEPT ![i].pc = "space"]
    /\ UNCHANGED <<completed, stdout>>
    /\ UNCHANGED UnitFrame

\* if josa_normalization: text = correct_josa(text)
_augment_josa(i) ==
    /\ pc = "running"
    /\ units[i].pc = "josa"
    /\ LET u == units[i]
           call == [op |-> "correct_josa", text |-> u.text]
       IN  IF func.josa_normalization
           THEN \/ units' = [units EXCEPT ![i].pc = "space",
                                          ![i].calls = Append(@, call),
                                          ![i].text = correct_josa(u.text)]
                \/ StageFailure(i, call, "correct_josa")
           ELSE units' = [units EXCEPT ![i].pc = "space"]
    /\ UNCHANGED <<completed, stdout>>
    /\ UNCHANGED UnitFrame

\* _augment_space that switches the shared flag off once it has run
_augment_space_clears_flag(i) ==
    /\ pc = "running"
    /\ units[i].pc = "space"
    /\ LET u == units[i]
           call == [op |-> "correct_spacing", text |-> u.text]
       IN  IF func.space_normalization
           THEN /\ \/ units' = [units EXCEPT ![i].pc = "verbose",
                                             ![i].calls = Append(@, call),
                                             ![i].text = correct_spacing(u.text)]
                   \/ StageFailure(i, call, "correct_spacing")
                /\ func' = [func EXCEPT !.space_normalization = FALSE]
           ELSE /\ units' = [units EXCEPT ![i].pc = "verbose"]
                /\ UNCHANGED func
    /\ UNCHANGED <<completed, stdout>>
    /\ UNCHANGED <<args, cpu_count, pc, text, finish, num_workers, verbose,
                   warnings, result, error>>

\* _augment_space without its condition: correct_spacing always runs
_augment_space_always(i) ==
    /\ pc = "running"
    /\ units[i].pc = "space"
    /\ LET u == units[i]
           call == [op |-> "correct_spacing", text |-> u.text]
       IN  \/ units' = [units EXCEPT ![i].pc = "verbose",
                                     ![i].calls = Append(@, call),
                                     ![i].text = correct_spacing(u.text)]
           \/ StageFailure(i, call, "correct_spacing")
    /\ UNCHANGED <<completed, stdout>>
    /\ UNCHANGED UnitFrame

\* if space_normalization: text = correct_spacing(text)
_augment_space(i) ==
    /\ pc = "running"
    /\ units[i].pc = "space"
    /\ LET u == units[i]
           call == [op |-> "correct_spacing", text |-> u.text]
       IN  IF func.space_normalization
           THEN \/ units' = [units EXCEPT ![i].pc = "verbose",
                                          ![i].calls = Append(@, call),
                                          ![i].text = correct_spacing(u.text)]
                \/ StageFailure(i, call, "correct_spacing")
           ELSE units' = [units EXCEPT ![i].pc = "verbose"]
    /\ UNCHANGED <<completed, stdout>>
    /\ UNCHANGED UnitFrame

\* _augment_verbose keeping the rendering: `text = highlight_diffs(...)`
_augment_verbose_assigns(i) ==
    /\ pc = "running"
    /\ units[i].pc = "verbose"
    /\ LET u == units[i]
           call == [op |-> "highlight_diffs", a |-> u.orig_text, b |-> u.text]
           diff == replace_newline(highlight_diffs(u.orig_text, u.text))
       IN  IF func.verbose
           THEN /\ units' = [units EXCEPT ![i].pc = "return",
                                          ![i].calls = Append(@, call),
                                          ![i].text = diff]
                /\ stdout' = stdout \o << <<>>, diff >>
           ELSE /\ units' = [units EXCEPT ![i].pc = "return"]
                /\ UNCHANGED stdout
    /\ UNCHANGED completed
    /\ UNCHANGED UnitFrame

\* if verbose: print(); print(highlight_diffs(orig_text, text).replace("\n", "\\n"))
_augment_verbose(i) ==
    /\ pc = "running"
    /\ units[i].pc = "verbose"
    /\ LET u == units[i]
           call == [op |-> "highlight_diffs", a |-> u.orig_text, b |-> u.text]
       IN  IF func.verbose
           THEN /\ units' = [units EXCEPT ![i].pc = "return",
                                          ![i].calls = Append(@, call)]
                /\ stdout' = stdout \o
                       << <<>>, replace_newline(highlight_diffs(u.orig_text, u.text)) >>
           ELSE /\ units' = [units EXCEPT ![i].pc = "return"]
                /\ UNCHANGED stdout
    /\ UNCHANGED completed
    /\ UNCHANGED UnitFrame

\* _augment_return of the wrong local: `return orig_text`
_augment_return_orig_text(i) ==
    /\ pc = "running"
    /\ units[i].pc = "return"
    /\ units' = [units EXCEPT ![i].pc = "finished", ![i].ret = units[i].orig_text]
    /\ completed' = Append(completed, i)
    /\ UNCHANGED stdout
    /\ UNCHANGED UnitFrame

\* return text
_augment_return(i) ==
    /\ pc = "running"
    /\ units[i].pc = "return"
    /\ units' = [units EXCEPT ![i].pc = "finished", ![i].ret = units[i].text]
    /\ completed' = Append(completed, i)
    /\ UNCHANGED stdout
    /\ UNCHANGED UnitFrame

\* ------------------------------------------------------- _run_job: results
Failed == {i \in 1..Len(units) : units[i].pc = "failed"}

\* _run_job: the results, by input index, in the shape of the inputs
_run_job_results ==
    IF text.t = "str"
    THEN PyStr(units[1].ret)
    ELSE PyList([i \in 1..Len(units) |-> units[i].ret])

\* _run_job returns (or re-raises what one of the invocations raised) and augment
\* returns its value.  Direct: an exception leaves the loop at once;
\* Parallel: the caller blocks until every dispatched invocation has ended.
RunJobReturn ==
    /\ pc = "running"
    /\ IF num_workers = PyBool(FALSE)
       THEN \/ Failed # {}
            \/ \A i \in 1..Len(units) : units[i].pc = "finished"
       ELSE \A i \in 1..Len(units) : units[i].pc \in {"finished", "failed"}
    /\ IF Failed # {}
       THEN /\ \E i \in Failed : error' = units[i].error
            /\ pc' = "raised"
            /\ UNCHANGED result
       ELSE /\ result' = _run_job_results
            /\ pc' = "done"
            /\ UNCHANGED error
    /\ UNCHANGED <<args, cpu_count, text, finish, num_workers, verbose,
                   warnings, func, units, completed, stdout>>

\* ================================================================== claims
Dispatched == func.bound

Direct == num_workers = PyBool(FALSE)

UnitIds == 1..Len(units)

\* what a stage call of the log returned, had it returned
StageOutput(c) ==
    CASE c.op = "replace" -> SynonymReplacement(c.backend, c.text, c.p)
      [] c.op = "correct_josa" -> correct_josa(c.text)
      [] c.op = "correct_spacing" -> correct_spacing(c.text)

\* the indices of the calls of a stage in the log of invocation i
CallsOf(i, op) == {k \in 1..Len(units[i].calls) : units[i].calls[k].op = op}

\* the text the pipeline is to return for text t under the request's settings:
\* replace, then josa-fix if enabled, then space-fix if enabled
PipelineResult(t) ==
    LET r1 == SynonymReplacement(args.backend, t, args.replacement_ratio.v)
        r2 == IF args.josa_normalization.v THEN correct_josa(r1) ELSE r1
    IN  IF args.space_normalization.v THEN correct_spacing(r2) ELSE r2

\* C1: whatever the order in which the workers complete, the result returned
\* for a batch has the length of the input and its i-th element is the
\* pipeline result of the i-th input.
C1_BatchOrderPreserved ==
    (pc = "done" /\ args.text.t = "list")
        => /\ result.t = "list"
           /\ Len(result.v) = Len(args.text.v)
           /\ \A i \in 1..Len(args.text.v) :
                  finish \/ result.v[i] = PipelineResult(args.text.v[i])

\* a parallel batch of two different texts whose second text completed first
C1_Witness ==
    /\ pc = "done"
    /\ args.text.t = "list"
    /\ Len(args.text.v) = 2
    /\ args.text.v[1] # args.text.v[2]
    /\ ~Direct
    /\ completed = <<2, 1>>

\* C2: in every per-text invocation the stages are called in the order
\* replace, josa-fix, space-fix: the first call is the replacer on the original
\* text, the josa corrector is called only when enabled and directly on the
\* replacer's output, the spacing corrector only when enabled and on the output
\* of the stage before it, and nothing is called after the spacing corrector
\* but the diff.
C2_StageOrder ==
    \A i \in UnitIds :
        LET c == units[i].calls
        IN  \A k \in 1..Len(c) :
                /\ (k = 1) <=> (c[k].op = "replace")
                /\ c[k].op = "replace" => c[k].text = units[i].arg
                /\ c[k].op = "correct_josa"
                       => /\ func.josa_normalization
                          /\ c[k - 1].op = "replace"
                          /\ c[k].text = StageOutput(c[k - 1])
                /\ c[k].op = "correct_spacing"
                       => /\ func.space_normalization
                          /\ c[k - 1].op =
                                 (IF func.josa_normalization
                                  THEN "correct_josa" ELSE "replace")
                          /\ c[k].text = StageOutput(c[k - 1])
                /\ c[k].op = "highlight_diffs" => k = Len(c)

\* an invocation that ran all three stages
C2_Witness ==
    \E i \in UnitIds :
        /\ units[i].pc = "finished"
        /\ CallsOf(i, "correct_josa") # {}
        /\ CallsOf(i, "correct_spacing") # {}

\* C3: once the input check reports finish, the call has returned the input
\* unchanged and nothing was dispatched, invoked, printed or bound.
C3_PassThrough ==
    finish => /\ pc = "done"
              /\ result = args.text
              /\ error = NoError
              /\ ~Dispatched
              /\ units = <<>>
              /\ stdout = <<>>

\* the empty string was passed and the call has returned
C3_Witness == finish /\ pc = "done" /\ args.text = PyStr(<<>>)

\* C4: a call whose text is a single string never gets a parallel plan: once
\* the worker count is resolved it is False, one invocation is dispatched and
\* no multiprocessing warning is given.
C4_SingleStringDirect ==
    (args.text.t = "str"
     /\ pc \in {"check_backend", "verbose_gate", "run_job", "running", "done"}
     /\ ~finish)
        => /\ Direct
           /\ warnings = <<>>
           /\ Dispatched => Len(units) = 1

\* a single string passed with num_workers=2 and with num_workers="auto"
C4_Witness ==
    /\ args.text.t = "str"
    /\ pc = "done"
    /\ ~finish
    /\ \/ args.num_workers = PyInt(2)
       \/ args.num_workers = PyStr(<<"auto">>) /\ cpu_count >= 2

\* C5: when verbose=True was passed and the plan is parallel, the partial
\* handed to the dispatcher carries verbose=False, the warning was given before
\* the dispatch, every stage sees verbose=False and no diff is made or printed.
C5_VerboseOffWhenParallel ==
    (Dispatched /\ args.verbose = PyBool(TRUE) /\ ~Direct)
        => /\ func.verbose = FALSE
           /\ warnings = <<VerboseWarning>>
           /\ stdout = <<>>
           /\ \A i \in UnitIds :
                  /\ CallsOf(i, "highlight_diffs") = {}
                  /\ \A k \in CallsOf(i, "replace") : ~units[i].calls[k].verbose

\* a parallel batch asked to be verbose, completed
C5_Witness ==
    /\ pc = "done"
    /\ Dispatched
    /\ args.verbose = PyBool(TRUE)
    /\ ~Direct
    /\ Len(units) >= 2

Ended == pc \in {"done", "raised"}

\* what the validation of each argument says of the request as passed
TextPasses == _check_text(args.text)[3] = NoError
TextTerminal == TextPasses /\ _check_text(args.text)[2]
RatioPasses == _check_type(args.replacement_ratio, "replacement_ratio", "float") = NoError
FlagsPass ==
    /\ _check_type(args.space_normalization, "space_normalization", "bool") = NoError
    /\ _check_type(args.josa_normalization, "josa_normalization", "bool") = NoError
    /\ _check_type(args.verbose, "verbose", "bool") = NoError
WorkersPass == _check_num_workers(args.text, args.num_workers, cpu_count)[2] = NoError
BackendPasses == _check_backend_mecab_pecab_only(args.backend) = NoError

\* C6 as stated: every call with an unsupported backend name ends with
\* UnsupportedBackend, before any text unit is processed.
C6_AsStated ==
    (Ended /\ ~BackendPasses)
        => error = Raise("UnsupportedBackend", "backend") /\ units = <<>>

\* C6, amended: a call with an unsupported backend name never dispatches or
\* processes a text unit; it ends with UnsupportedBackend whenever the text is
\* not terminal and the text, the ratio, the flags and the worker count pass
\* their checks (otherwise it ends earlier, with the pass-through or with the
\* error of the earlier check).
C6_UnsupportedBackend ==
    ~BackendPasses
        => /\ ~Dispatched
           /\ units = <<>>
           /\ pc \notin {"verbose_gate", "run_job", "running"}
           /\ (Ended /\ TextPasses /\ ~TextTerminal /\ RatioPasses
               /\ FlagsPass /\ WorkersPass)
                  => (pc = "raised" /\ error = Raise("UnsupportedBackend", "backend"))

\* a batch passed with backend="klt" ended with UnsupportedBackend
C6_Witness ==
    /\ pc = "raised"
    /\ args.backend = "klt"
    /\ args.text.t = "list"
    /\ Len(args.text.v) = 2
    /\ error = Raise("UnsupportedBackend", "backend")

\* C7 as stated: every call with a replacement_ratio that is not a float ends
\* with a TypeMismatch naming replacement_ratio, before any stage runs.
C7_AsStated ==
    (Ended /\ ~RatioPasses)
        => error = Raise("TypeMismatch", "replacement_ratio") /\ units = <<>>

\* C7, amended: a call with a replacement_ratio that is not a float never runs
\* a stage; it ends with a TypeMismatch naming replacement_ratio whenever the
\* text passes its check and is not terminal (otherwise it ends with
\* InputShapeError or with the pass-through).
C7_RatioTypeMismatch ==
    ~RatioPasses
        => /\ ~Dispatched
           /\ units = <<>>
           /\ pc \in {"check_text", "check_replacement_ratio", "done", "raised"}
           /\ (Ended /\ TextPasses /\ ~TextTerminal)
                  => (pc = "raised"
                      /\ error = Raise("TypeMismatch", "replacement_ratio"))

\* a string ratio passed with a text to augment ended with the TypeMismatch
C7_Witness ==
    /\ pc = "raised"
    /\ args.replacement_ratio = PyStr(<<"0.3">>)
    /\ args.text.t = "str"
    /\ ~TextTerminal
    /\ error = Raise("TypeMismatch", "replacement_ratio")

ValidationErrors ==
    {"InputShapeError", "TypeMismatch", "WorkerPlanError", "UnsupportedBackend"}

\* C8: a call that has a validation error has ended with it, having dispatched
\* nothing, invoked no stage, printed nothing and returned nothing; and by the
\* time anything is dispatched every argument has passed its check.
C8_FailFast ==
    /\ error.kind \in ValidationErrors
           => /\ pc = "raised"
              /\ ~Dispatched
              /\ units = <<>>
              /\ stdout = <<>>
              /\ result = NoneValue
    /\ (Dispatched \/ units # <<>>)
           => /\ TextPasses /\ ~TextTerminal
              /\ RatioPasses
              /\ FlagsPass
              /\ WorkersPass
              /\ BackendPasses

\* a batch ended with the error of the worker-count check
C8_Witness ==
    /\ pc = "raised"
    /\ error.kind = "WorkerPlanError"
    /\ args.text.t = "list"
    /\ Len(args.text.v) = 2

\* C9: a corrector is called only when its flag is enabled, and exactly once
\* by an invocation that got past its place in the pipeline with the flag
\* enabled; with both flags disabled the invocation returns exactly the
\* replacer's output, and so does the call.
C9_FlagsGateCorrectors ==
    /\ Dispatched
           => /\ func.josa_normalization = args.josa_normalization.v
              /\ func.space_normalization = args.space_normalization.v
    /\ \A i \in UnitIds :
           LET u == units[i]
               josa == CallsOf(i, "correct_josa")
               space == CallsOf(i, "correct_spacing")
           IN  /\ josa # {} => func.josa_normalization
               /\ space # {} => func.space_normalization
               /\ (u.pc \in {"space", "verbose", "return", "finished"}
                   /\ func.josa_normalization) => Cardinality(josa) = 1
               /\ (u.pc \in {"verbose", "return", "finished"}
                   /\ func.space_normalization) => Cardinality(space) = 1
               /\ (u.pc = "finished" /\ ~func.josa_normalization
                   /\ ~func.space_normalization)
                      => /\ u.ret = StageOutput(u.calls[1])
                         /\ u.ret = SynonymReplacement(args.backend, u.arg,
                                                       args.replacement_ratio.v)
    /\ (pc = "done" /\ Dispatched /\ ~func.josa_normalization
        /\ ~func.space_normalization)
           => \A i \in UnitIds :
                  (IF text.t = "str" THEN result.v ELSE result.v[i])
                      = SynonymReplacement(args.backend, units[i].arg,
                                           args.replacement_ratio.v)

\* a call with both normalizations disabled has returned
C9_Witness ==
    /\ pc = "done"
    /\ Dispatched
    /\ args.josa_normalization = PyBool(FALSE)
    /\ args.space_normalization = PyBool(FALSE)
    /\ \E i \in UnitIds : units[i].pc = "finished"

\* C10: what an invocation returns is the output of its last enabled stage
\* whether verbose is on or off; with verbose on the diff is made exactly once,
\* as the last call, of the original text and the returned text, and is
\* printed; with verbose off it is never made.
C10_VerboseSideEffectOnly ==
    \A i \in UnitIds :
        LET u == units[i]
            diffs == CallsOf(i, "highlight_diffs")
        IN  /\ ~func.verbose => diffs = {}
            /\ u.pc = "finished"
                   => /\ u.ret = PipelineResult(u.arg)
                      /\ func.verbose
                             => /\ diffs = {Len(u.calls)}
                                /\ u.calls[Len(u.calls)].a = u.arg
                                /\ u.calls[Len(u.calls)].b = u.ret
                                /\ \E k \in 1..Len(stdout) :
                                       stdout[k] = replace_newline(
                                           highlight_diffs(u.arg, u.ret))

\* a verbose invocation with both normalizations enabled has returned
C10_Witness ==
    \E i \in UnitIds :
        /\ units[i].pc = "finished"
        /\ func.verbose
        /\ func.josa_normalization
        /\ func.space_normalization

\* C11: the value returned has the shape of the input: a string for a string,
\* a collection for a collection, on the pass-through path and on the pipeline
\* path, for a Direct and for a Parallel plan.
C11_ShapeMirrorsInput ==
    pc = "done"
        => /\ result.t = args.text.t
           /\ result.t = "list" => Len(result.v) = Len(args.text.v)
           /\ result.t \in {"str", "list"}

\* a single string went through the pipeline and a string came back
C11_Witness ==
    /\ pc = "done"
    /\ Dispatched
    /\ args.text.t = "str"
    /\ result.t = "str"

StageOps == {"replace", "correct_josa", "correct_spacing"}

\* C12: no stage is called twice by an invocation; an invocation that a stage
\* failed in has stopped at that call, which is the last of its log, and holds
\* that stage's failure; a call that has a failed invocation ends raising the
\* failure of one of them as it is, and returns nothing.
C12_StageFailurePropagates ==
    /\ \A i \in UnitIds :
           LET u == units[i]
               c == u.calls
           IN  /\ \A op \in StageOps : Cardinality(CallsOf(i, op)) <= 1
               /\ (u.error # NoError) <=> (u.pc = "failed")
               /\ u.pc = "failed"
                      => /\ Len(c) >= 1
                         /\ c[Len(c)].op \in StageOps
                         /\ u.error = Raise("StageFailure", c[Len(c)].op)
                         /\ u.ret = <<>>
                         /\ i \notin {completed[k] : k \in 1..Len(completed)}
    /\ (Ended /\ Dispatched /\ Failed # {})
           => /\ pc = "raised"
              /\ result = NoneValue
              /\ \E i \in Failed : error = units[i].error
    /\ error.kind = "StageFailure"
           => /\ pc = "raised"
              /\ result = NoneValue
              /\ \E i \in Failed : error = units[i].error

\* the josa corrector failed for the first text of a Direct batch: the call
\* raised it and the second text was never started
C12_Witness ==
    /\ pc = "raised"
    /\ Direct
    /\ Len(units) = 2
    /\ units[1].error = Raise("StageFailure", "correct_josa")
    /\ error = Raise("StageFailure", "correct_josa")
    /\ units[2].pc = "pending"

\* a step of the invocation for input j
UnitStep(j) ==
    \/ _augment_replace(j)
    \/ _augment_josa(j)
    \/ _augment_space(j)
    \/ _augment_verbose(j)
    \/ _augment_return(j)

\* C13: in a parallel batch a failed invocation neither blocks nor corrupts the
\* others: an invocation in progress can always take its next step, a waiting
\* one can start as soon as no worker is busy, the call does not end before
\* every invocation has finished or failed, and every invocation that finishes
\* returns the pipeline result of its own text.
C13_SiblingsUnaffected ==
    /\ \A j \in UnitIds :
           units[j].pc = "finished" => units[j].ret = PipelineResult(units[j].arg)
    /\ (Dispatched /\ ~Direct)
           => /\ Ended => \A j \in UnitIds : units[j].pc \in {"finished", "failed"}
              /\ pc = "running"
                     => \A j \in UnitIds :
                            /\ Active(units[j]) => ENABLED UnitStep(j)
                            /\ (units[j].pc = "pending"
                                /\ \A k \in UnitIds : ~Active(units[k]))
                                   => ENABLED _augment_start(j)

\* a parallel batch whose first invocation failed and whose second finished
C13_Witness ==
    /\ Dispatched
    /\ ~Direct
    /\ pc = "raised"
    /\ Len(units) = 2
    /\ units[1].pc = "failed"
    /\ units[2].pc = "finished"
    /\ units[1].arg # units[2].arg

AllFinished ==
    /\ pc = "running"
    /\ \A i \in UnitIds : units[i].pc = "finished"

\* a call that has returned from the pipeline path has every invocation finished
ReturnedAfterAll ==
    (pc = "done" /\ Dispatched)
        => /\ \A i \in UnitIds : units[i].pc = "finished"
           /\ Len(completed) = Len(units)
           /\ result # NoneValue

\* C14: augment never has returned a result while an invocation is still
\* waiting or in progress, and once every invocation has finished the call
\* returns.
C14_ReturnsAfterAllUnits == []ReturnedAfterAll /\ (AllFinished ~> pc = "done")

\* every invocation of a parallel batch has finished and the call has not
\* returned yet
C14_Witness ==
    /\ AllFinished
    /\ ~Direct
    /\ Len(units) = 2

PastJosa == {"space", "verbose", "return", "finished"}
PastSpace == {"verbose", "return", "finished"}
PastVerbose == {"return", "finished"}

\* every invocation is given the parameters of the one partial, which are the
\* validated arguments of the call and the effective verbose
SameParameters ==
    Dispatched
        => /\ func.replacement_ratio = args.replacement_ratio.v
           /\ func.space_normalization = args.space_normalization.v
           /\ func.josa_normalization = args.josa_normalization.v
           /\ func.backend = args.backend
           /\ func.verbose = (args.verbose.v /\ Direct)
           /\ \A i \in UnitIds : \A k \in CallsOf(i, "replace") :
                  /\ units[i].calls[k].p = func.replacement_ratio
                  /\ units[i].calls[k].backend = func.backend
                  /\ units[i].calls[k].verbose = func.verbose
           /\ \A i, j \in UnitIds :
                  /\ (units[i].pc \in PastJosa /\ units[j].pc \in PastJosa)
                         => ((CallsOf(i, "correct_josa") # {})
                                 <=> (CallsOf(j, "correct_josa") # {}))
                  /\ (units[i].pc \in PastSpace /\ units[j].pc \in PastSpace)
                         => ((CallsOf(i, "correct_spacing") # {})
                                 <=> (CallsOf(j, "correct_spacing") # {}))
                  /\ (units[i].pc \in PastVerbose /\ units[j].pc \in PastVerbose)
                         => ((CallsOf(i, "highlight_diffs") # {})
                                 <=> (CallsOf(j, "highlight_diffs") # {}))

\* C15: within a call every invocation sees the same ratio, flags, backend and
\* effective verbose, those of the validated request, and neither the bound
\* parameters nor the request change once the dispatch has begun.
C15_SameParametersForAll ==
    []SameParameters /\ [][Dispatched => (func' = func /\ args' = args)]_vars

\* two invocations of one call have both gone through the pipeline
C15_Witness ==
    /\ Len(units) = 2
    /\ units[1].pc = "finished"
    /\ units[2].pc = "finished"
    /\ func.space_normalization
    /\ func.josa_normalization

\* the verbose gate has been passed
PastGate == pc \in {"run_job", "running"} \/ Dispatched

\* the invocations that are past the diff step
Diffed == {i \in UnitIds : units[i].pc \in PastVerbose}

\* C16: with a Direct plan and verbose=True the flag stays on, no warning is
\* given and every invocation prints its diff exactly once (an empty line, then
\* the rendering, in input order); the warning is given if and only if the plan
\* is parallel and verbose was asked for.
C16_VerboseKeptWhenDirect ==
    /\ warnings # <<>>
           => /\ warnings = <<VerboseWarning>>
              /\ PastGate
              /\ ~Direct
              /\ args.verbose = PyBool(TRUE)
    /\ (PastGate /\ ~Direct /\ args.verbose = PyBool(TRUE))
           => warnings = <<VerboseWarning>>
    /\ (Dispatched /\ Direct /\ args.verbose = PyBool(TRUE))
           => /\ verbose = PyBool(TRUE)
              /\ func.verbose
              /\ warnings = <<>>
              /\ Len(stdout) = 2 * Cardinality(Diffed)
              /\ \A i \in Diffed :
                     /\ Cardinality(CallsOf(i, "highlight_diffs")) = 1
                     /\ stdout[2 * i - 1] = <<>>
                     /\ stdout[2 * i] = replace_newline(
                            highlight_diffs(units[i].arg, units[i].text))

\* a Direct batch of two texts asked to be verbose has returned, two diffs printed
C16_Witness ==
    /\ pc = "done"
    /\ Dispatched
    /\ Direct
    /\ args.verbose = PyBool(TRUE)
    /\ Len(units) = 2
    /\ Len(stdout) = 4

\* the error of the first check, in the order of augment's lines, that the
\* request fails
FirstFailure ==
    LET first(e, rest) == IF e # NoError THEN e ELSE rest
    IN  first(_check_text(args.text)[3],
        first(_check_type(args.replacement_ratio, "replacement_ratio", "float"),
        first(_check_type(args.space_normalization, "space_normalization", "bool"),
        first(_check_type(args.josa_normalization, "josa_normalization", "bool"),
        first(_check_type(args.verbose, "verbose", "bool"),
        first(_check_num_workers(args.text, args.num_workers, cpu_count)[2],
              _check_backend_mecab_pecab_only(args.backend)))))))

\* C17: the checks run in the order text, replacement_ratio,
\* space_normalization, josa_normalization, verbose, num_workers, backend and
\* stop at the first failure: a call that ends with a validation error ends with
\* that of the earliest failing parameter, and a call whose text is not
\* terminal and that fails a check ends with nothing else.
C17_EarliestErrorReported ==
    /\ error.kind \in ValidationErrors => error = FirstFailure
    /\ (Ended /\ ~TextTerminal /\ FirstFailure # NoError)
           => (pc = "raised" /\ error = FirstFailure)
    /\ pc = "check_space_normalization" => RatioPasses
    /\ pc = "check_num_workers" => (RatioPasses /\ FlagsPass)
    /\ pc = "check_backend" => (RatioPasses /\ FlagsPass /\ WorkersPass)

\* a bad replacement_ratio passed with a bad flag and an unsupported backend
\* ended with the TypeMismatch of replacement_ratio
C17_Witness ==
    /\ pc = "raised"
    /\ ~RatioPasses
    /\ ~BackendPasses
    /\ args.josa_normalization.t # "bool"
    /\ error = Raise("TypeMismatch", "replacement_ratio")

\* C18: a call whose text is terminal checks nothing else: it never raises,
\* warns or dispatches, whatever the other arguments are, and it ends having
\* returned the text it was given.
C18_PassThroughSkipsValidation ==
    TextTerminal
        => /\ pc \in {"check_text", "done"}
           /\ error = NoError
           /\ warnings = <<>>
           /\ ~Dispatched
           /\ pc = "done" => (finish /\ result = args.text)

\* an empty text passed with a bad ratio, a bad flag, a bad worker count, an
\* unsupported backend and verbose=True has been returned
C18_Witness ==
    /\ pc = "done"
    /\ TextTerminal
    /\ ~RatioPasses
    /\ args.space_normalization.t # "bool"
    /\ ~WorkersPass
    /\ ~BackendPasses
    /\ args.verbose = PyBool(TRUE)

Next ==
    \/ CheckText
    \/ CheckReplacementRatio
    \/ CheckSpaceNormalization
    \/ CheckJosaNormalization
    \/ CheckVerbose
    \/ CheckNumWorkers
    \/ CheckBackend
    \/ VerboseGate
    \/ RunJob
    \/ \E i \in 1..Len(units) : _augment_start(i)
    \/ \E i \in 1..Len(units) : _augment_replace(i)
    \/ \E i \in 1..Len(units) : _augment_josa(i)
    \/ \E i \in 1..Len(units) : _augment_space(i)
    \/ \E i \in 1..Len(units) : _augment_verbose(i)
    \/ \E i \in 1..Len(units) : _augment_return(i)
    \/ RunJobReturn

Spec == Init /\ [][Next]_vars

\* the caller, blocked in _run_job, goes on once the invocations have ended
FairSpec == Spec /\ WF_vars(RunJobReturn)
====
